---- MODULE Spec2Model ----
(***************************************************************************)
(* Document discovery, deduplication and classification pipeline of the    *)
(* FinBot repository: the scraper variants (branch-targeted,               *)
(* comprehensive, additional, real, selenium WebScraper), their metadata   *)
(* extraction and branch classification, and the storage collaborator.     *)
(*                                                                         *)
(* Strings of the program are abstracted as follows.  A text is the set of *)
(* vocabulary words occurring in it; a keyword occurs in a text when it is *)
(* a substring of one of its words (table Hits).  A file name is a         *)
(* sequence of tokens.  The outcome of a regular-expression search is the  *)
(* set of patterns that match.                                             *)
(***************************************************************************)
EXTENDS Integers, Sequences, FiniteSets, TLC

-----------------------------------------------------------------------------
(* Bounds of the model *)

NumUrls == 3
MaxLinks == 2
MaxTarget == 2
MaxFname == 2
MaxWords == 2

-----------------------------------------------------------------------------
(* Program constants *)

AdditionalQuota == 5
SkipThreshold == 10
HashModulus == 100000
NumGrPatterns == 7
NumGrPatternsAdditional == 4

-----------------------------------------------------------------------------
(* Generic helpers *)

Range(s) == {s[i] : i \in 1..Len(s)}

Min(a, b) == IF a <= b THEN a ELSE b

SeqsUpTo(S, n) == UNION {[1..k -> S] : k \in 0..n}

-----------------------------------------------------------------------------
(* Branch names *)

BrA == "A-(Public Sector Undertaking)"
BrCH == "CH-(Service Matter)"
BrK == "K-(Budget)"
BrM == "M-(Pay of Government Employee)"
BrPayCell == "PayCell-(Pay Commission)"
BrN == "N-(Banking)"
BrP == "P-(Pension)"
BrT == "T-(Treasury)"
BrF == "F-(Finance Code)"
BrAU == "AU-(Audit)"
BrZEco == "Z-(Economy)"
BrGST == "GST Cell"

\* run_branch_scraping: the (value, name) pairs of the branch selector
branches ==
  << <<"1", BrA>>, <<"2", BrCH>>, <<"3", BrK>>, <<"4", BrM>>,
     <<"5", BrPayCell>>, <<"6", BrN>>, <<"7", BrP>>,
     <<"8", "T-(Local Establishment)">>, <<"9", "TH-(Value Added Tax)">>,
     <<"10", "TH-3-(Commercial Tax Establishment)">>, <<"11", "Z-(Treasury)">>,
     <<"12", "Z-1-(Economy)">>, <<"13", "G-(Audit Para)">>,
     <<"14", "GH-(Accounts Cadre Establishment)">>,
     <<"15", "FR-(Financial Resources)">>, <<"16", "DMO-(Debt Management)">>,
     <<"17", "GO Cell-(Government Companies)">>,
     <<"18", "B-RTI Cell-(Small Savings RTI)">>, <<"19", "KH">>,
     <<"20", "PMU-Cell">>, <<"1024", BrGST>> >>

\* _get_tools_definition: the enum of the branch filter of get_pdf_related_data
ToolBranchEnum ==
  { BrA, BrCH, BrK, BrM, BrPayCell, BrN, BrP, "T-(Local Establishment)",
    "TH-(Value Added Tax)", "TH-3-(Commercial Tax Establishment)",
    "Z-(Treasury)", "Z-1-(Economy)", "G-(Audit Para)",
    "GH-(Accounts Cadre Establishment)", "FR-(Financial Resources)",
    "DMO-(Debt Management)", "GO Cell-(Government Companies)",
    "B-RTI Cell-(Small Savings RTI)", "KH", "PMU-Cell", BrGST }

BranchNames == {branches[i][2] : i \in 1..Len(branches)}

-----------------------------------------------------------------------------
(* Texts and keywords *)

Vocabulary ==
  { "pay", "payment", "commission", "budget", "audit", "pension",
    "treasury", "service", "employee", "economy", "gst", "notice" }

\* the keywords (of any classifier) that are substrings of a word
Hits(w) ==
  CASE w = "pay" -> {"pay"}
    [] w = "payment" -> {"pay", "payment"}
    [] w = "commission" -> {"commission"}
    [] w = "budget" -> {"budget"}
    [] w = "audit" -> {"audit"}
    [] w = "pension" -> {"pension"}
    [] w = "treasury" -> {"treasury"}
    [] w = "service" -> {"service"}
    [] w = "employee" -> {"employee"}
    [] w = "economy" -> {"economy"}
    [] w = "gst" -> {"gst"}
    [] OTHER -> {}

KeywordsIn(words) == UNION {Hits(w) : w \in words}

\* the names of the pages of discover_all_document_pages.known_pages
PageNames ==
  { "GR Page", "Circulars", "Circulars (Fallback)", "GR Page (Fallback)",
    "Notifications", "Rules", "Budget Documents", "Treasury Instructions",
    "Pension Documents", "Finance Code", "PFMS Documents", "Audit Reports" }

\* the classifier keywords occurring in the lowercased page name
PageKeywords(name) ==
  CASE name = "Budget Documents" -> {"budget"}
    [] name = "Treasury Instructions" -> {"treasury"}
    [] name = "Pension Documents" -> {"pension"}
    [] name = "Finance Code" -> {"finance code"}
    [] name = "Audit Reports" -> {"audit"}
    [] OTHER -> {}

\* the page-default substrings occurring in the lowercased page name
PageTags(name) ==
  CASE name \in {"GR Page", "GR Page (Fallback)"} -> {"gr"}
    [] name \in {"Circulars", "Circulars (Fallback)"} -> {"circular"}
    [] name = "Budget Documents" -> {"budget"}
    [] name = "Treasury Instructions" -> {"treasury"}
    [] name = "Pension Documents" -> {"pension"}
    [] name = "Audit Reports" -> {"audit"}
    [] OTHER -> {}

-----------------------------------------------------------------------------
(* Branch classifiers *)

\* mutant: the last branch of the mapping with a keyword in kws wins
RECURSIVE LastBranch(_, _)
LastBranch(mapping, kws) ==
  IF mapping = <<>> THEN ""
  ELSE LET rest == LastBranch(Tail(mapping), kws)
       IN IF rest # "" THEN rest
          ELSE IF Head(mapping)[2] \cap kws # {} THEN Head(mapping)[1]
          ELSE ""

\* first branch of an ordered keyword mapping with a keyword in kws, or ""
RECURSIVE FirstBranch(_, _)
FirstBranch(mapping, kws) ==
  IF mapping = <<>> THEN ""
  ELSE IF Head(mapping)[2] \cap kws # {} THEN Head(mapping)[1]
  ELSE FirstBranch(Tail(mapping), kws)

\* ComprehensiveScraper.classify_document_branch: branch_keywords (English)
ComprehensiveKeywords ==
  << <<BrM, {"pay", "salary", "scale", "grade", "allowance", "increment",
             "employee", "service"}>>,
     <<BrPayCell, {"commission", "committee", "pay commission"}>>,
     <<BrK, {"budget", "allocation", "expenditure", "appropriation"}>>,
     <<BrA, {"psu", "undertaking", "corporation", "enterprise", "company"}>>,
     <<BrCH, {"service", "recruitment", "promotion", "transfer", "posting"}>>,
     <<BrN, {"bank", "banking", "treasury", "deposit", "account"}>>,
     <<BrP, {"pension", "retirement", "gratuity", "provident fund"}>>,
     <<BrT, {"treasury", "cash", "payment", "receipt", "transaction"}>>,
     <<BrF, {"finance code", "financial rules", "procedure", "manual"}>>,
     <<BrAU, {"audit", "inspection", "examination", "review"}>> >>

\* the page-source default of the comprehensive classifier
ComprehensivePageDefault(tags) ==
  IF "gr" \in tags \/ "resolution" \in tags THEN BrM
  ELSE IF "circular" \in tags THEN BrPayCell
  ELSE IF "budget" \in tags THEN BrK
  ELSE IF "treasury" \in tags THEN BrT
  ELSE IF "pension" \in tags THEN BrP
  ELSE IF "audit" \in tags THEN BrAU
  ELSE BrM

\* ComprehensiveScraper.classify_document_branch(text, context, url, page_source)
\* words: the words of text and context; page: the page name
ClassifyComprehensive(words, page) ==
  LET kws == KeywordsIn(words) \cup PageKeywords(page)
      hit == FirstBranch(ComprehensiveKeywords, kws)
  IN IF hit # "" THEN hit ELSE ComprehensivePageDefault(PageTags(page))

\* AdditionalScraper.classify_document_branch(text, context, url)
ClassifyAdditional(words) ==
  LET kws == KeywordsIn(words)
  IN IF kws \cap {"commission", "committee"} # {} THEN BrPayCell
     ELSE IF kws \cap {"pay", "salary", "scale", "grade", "allowance",
                       "increment"} # {} THEN BrM
     ELSE IF "employee" \in kws \/ "service" \in kws THEN BrM
     ELSE BrPayCell

\* RealDocumentScraper.extract_branch: branch_keywords
RealKeywords ==
  << <<BrM, {"pay", "salary", "scale", "grade", "allowance", "increment",
             "employee", "service"}>>,
     <<BrPayCell, {"commission", "committee", "pay commission"}>>,
     <<BrK, {"budget", "allocation", "expenditure", "appropriation"}>>,
     <<BrA, {"psu", "undertaking", "corporation", "company"}>>,
     <<BrCH, {"service", "recruitment", "promotion", "transfer", "posting"}>>,
     <<BrN, {"bank", "banking", "treasury", "deposit"}>>,
     <<BrP, {"pension", "retirement", "gratuity", "provident"}>>,
     <<BrT, {"treasury", "cash", "payment", "receipt"}>>,
     <<BrF, {"finance code", "financial rules", "procedure", "manual"}>>,
     <<BrAU, {"audit", "inspection", "examination"}>>,
     <<BrZEco, {"economy", "economic"}>>,
     <<BrGST, {"gst", "goods and service tax"}>> >>

\* RealDocumentScraper.extract_branch(text, url, context)
\* words: the words of text, context and url; urlTags: substrings of the url
ClassifyReal(words, urlTags) ==
  LET hit == FirstBranch(RealKeywords, KeywordsIn(words))
  IN IF hit # "" THEN hit
     ELSE IF "rule" \in urlTags THEN BrF
     ELSE IF "notif" \in urlTags THEN BrPayCell
     ELSE IF "circular" \in urlTags THEN BrPayCell
     ELSE BrM

-----------------------------------------------------------------------------
(* Metadata extraction: the GR number *)

FnameTokens == {"a", "_", "-", ".pdf", ".PDF", ".Pdf"}

UrlTagNames == {"circular", "gr", "rule", "notification"}

\* values of hash(url) before the modulus is taken
HashSamples == {-100001, -1, 0, 99999, 100000}

\* the text of the match of the i-th pattern of gr_patterns
PatternMatch(i) == <<"match", ToString(i)>>

\* for pattern in gr_patterns: match = re.search(...); first match wins
\* matches: the patterns that match combined_text; n: the number of patterns tried
FirstMatch(matches, n) ==
  LET tried == {i \in matches : i <= n}
  IN IF tried = {} THEN 0
     ELSE CHOOSE i \in tried : \A j \in tried : i <= j

\* url.split('/')[-1].replace('.pdf', '').replace('.PDF', '')
UrlParts(fname) == SelectSeq(fname, LAMBDA t : t \notin {".pdf", ".PDF"})

\* mutant: the separator test is dropped
HasSeparatorDropped(parts) == TRUE

\* '_' in url_parts or '-' in url_parts
HasSeparator(parts) == "_" \in Range(parts) \/ "-" \in Range(parts)

\* page_type of the generated fallback GR number
PageType(urlTags) ==
  IF "circular" \in urlTags THEN "Cir"
  ELSE IF "gr" \in urlTags THEN "GR"
  ELSE IF "rule" \in urlTags THEN "Rule"
  ELSE IF "notification" \in urlTags THEN "Not"
  ELSE "DOC"

\* gr_no = f"{page_type}_{url_hash}" with url_hash = hash(url) % 100000
SyntheticGrNo(urlTags, hv) ==
  <<PageType(urlTags), "_", ToString(hv % HashModulus)>>

\* mutant: the fallback always generates the identifier
UrlFallbackGenerated(fname, urlTags, hv) == SyntheticGrNo(urlTags, hv)

\* the URL fallback of extract_document_info (branch-targeted, additional)
UrlFallback(fname, urlTags, hv) ==
  IF HasSeparator(UrlParts(fname)) THEN UrlParts(fname)
  ELSE SyntheticGrNo(urlTags, hv)

\* BranchSpecificScraper.extract_document_info: gr_no
GrNoBranch(matches, fname, urlTags, hv) ==
  LET m == FirstMatch(matches, NumGrPatterns)
  IN IF m # 0 THEN PatternMatch(m) ELSE UrlFallback(fname, urlTags, hv)

\* AdditionalScraper.extract_document_info: gr_no
GrNoAdditional(matches, fname, urlTags, hv) ==
  LET m == FirstMatch(matches, NumGrPatternsAdditional)
  IN IF m # 0 THEN PatternMatch(m) ELSE UrlFallback(fname, urlTags, hv)

\* ComprehensiveScraper.extract_document_info: gr_no
GrNoComprehensive(matches, fname, urlTags, hv) ==
  LET m == FirstMatch(matches, NumGrPatterns)
  IN IF m # 0 THEN PatternMatch(m)
     ELSE IF HasSeparator(UrlParts(fname)) THEN UrlParts(fname)
     ELSE <<"Unknown">>

-----------------------------------------------------------------------------
(* The scraping runs: state *)

VARIABLES
  variant,          \* which scraper runs
  target,           \* target_per_branch / max_per_page / max_records_per_branch
  max_branches,     \* WebScraper.scrape_all_branches(max_branches), 0 for None
  content,          \* the site: page or branch key -> the urls of its pdf anchors
  home,             \* the site: the anchors of the main page
  down,             \* the site: keys whose page scrape fails
  invalid,          \* the site: urls whose reachability check gives valid=false
  broken,           \* urls on which the extraction raises
  insert_fails,     \* whether the insert into the documents table raises
  no_embedding,     \* urls for which create_embedding raises
  storage,          \* rows of the documents table
  run,              \* number of the run
  pc,               \* position of the run
  document_pages,   \* the pages or branches the run visits, in order
  idx,              \* number of pages or branches already visited
  pdf_links,        \* all_pdf_links; pdf_links of the current branch
  li,               \* number of links already examined
  existing_urls,    \* existing_urls; seen_urls of the real scraper
  branch_count,     \* branch_count of run_branch_scraping
  branch_counts,    \* branch_counts; len(branch_documents[branch])
  accepted,         \* new_documents / all_new_documents / all_documents / all_data
  valid_count,
  invalid_count,
  insert_calls,     \* the batches handed to db.insert_documents, in order
  backups,          \* the json snapshots written
  start_urls,       \* the pdf_url values in storage when the run started
  prev_accepted,    \* the records accepted by the previous run
  navigation_route, \* self.navigation_route: the route steps not yet handed out
  fin,              \* input of the metadata functions
  fout              \* result of the metadata functions

runVars ==
  << run, pc, document_pages, idx, pdf_links, li, existing_urls, branch_count,
     branch_counts, accepted, valid_count, invalid_count, insert_calls,
     backups, start_urls, prev_accepted, navigation_route >>

worldVars ==
  << variant, target, max_branches, content, home, down, invalid, broken,
     insert_fails, no_embedding >>

funVars == << fin, fout >>

vars == << worldVars, storage, runVars, funVars >>

Variants == {"branch", "comprehensive", "additional", "real", "web"}

Urls == 1..NumUrls

base_url == "https://financedepartment.gujarat.gov.in"

\* the words of the anchor text and context of the link to a url
WordsOf(u) ==
  CASE u % 3 = 1 -> {"pay"}
    [] u % 3 = 2 -> {"audit"}
    [] OTHER -> {"notice"}

\* the pages of the site that carry pdf anchors
ContentKeys(v) ==
  IF v \in {"branch", "web"} THEN <<BrK, BrM>>
  ELSE <<"/gr.html", "/circulars.html">>

\* the paths that answer 200
SitePaths == {"/", "/gr.html", "/circulars.html", "/Notifications.html"}

Content(key) == IF key \in DOMAIN content THEN content[key] ELSE <<>>

Doc(u, b, v) == [pdf_url |-> u, branch |-> b, pdf_valid |-> v]

\* rows of other documents of a branch, none of them offered by the site
Legacy(b, n) == [i \in 1..n |-> Doc(0, b, TRUE)]

\* the documents table before the run: empty, or holding document 2, or (for
\* the branch-targeted run) holding enough rows of a branch to skip it
InitStorages(v) ==
  {<<>>, <<Doc(2, BrM, TRUE)>>}
    \cup (IF v = "branch" THEN {Legacy(BrK, SkipThreshold)} ELSE {})

\* what goes wrong during a run: nothing, one page that fails, document 1
\* failing verification, the extraction raising on document 1, the insert
\* into the table raising, or create_embedding raising for document 1
Faults(v) ==
  {"none", "down1", "down2", "invalid"}
    \cup (IF v = "web" THEN {"down0"} ELSE {"broken"})
    \cup (IF v \in {"additional", "real"} THEN {"insert_fails"} ELSE {})
    \cup (IF v = "additional" THEN {"no_embedding"} ELSE {})

\* an anchor of the main page: <a href="/circulars.html">Circulars</a>
HomeAnchor ==
  [text |-> "Circulars", href |-> <<"/circulars.html">>, html |-> TRUE, doc_word |-> TRUE]

\* DatabaseManager.search_documents({}) projected on pdf_url
StoredUrls(st) == {st[i].pdf_url : i \in 1..Len(st)}

\* DatabaseManager.get_documents_by_branch
DocumentsByBranch(st, b) == SelectSeq(st, LAMBDA d : d.branch = b)

\* DatabaseManager.insert_documents: the rows after inserting the batch
InsertDocuments(st, docs) == st \o docs

UrlsOf(docs) == {docs[i].pdf_url : i \in 1..Len(docs)}

NoInput == [kind |-> "none"]

InitRun ==
  /\ run = 1
  /\ pc = "idle"
  /\ document_pages = <<>>
  /\ idx = 0
  /\ pdf_links = <<>>
  /\ li = 0
  /\ existing_urls = {}
  /\ branch_count = 0
  /\ branch_counts = <<>>
  /\ accepted = <<>>
  /\ valid_count = 0
  /\ invalid_count = 0
  /\ insert_calls = <<>>
  /\ backups = <<>>
  /\ start_urls = StoredUrls(storage)
  /\ prev_accepted = <<>>
  /\ navigation_route = <<>>

Init ==
  /\ variant \in Variants
  /\ target \in (IF variant = "additional" THEN {AdditionalQuota} ELSE 1..MaxTarget)
  /\ max_branches \in (IF variant = "web" THEN 0..1 ELSE {0})
  /\ \E c1 \in SeqsUpTo(Urls, MaxLinks), c2 \in {<<>>, <<1>>} :
       content = (ContentKeys(variant)[1] :> c1) @@ (ContentKeys(variant)[2] :> c2)
  /\ home \in (IF variant = "comprehensive" THEN {<<>>, <<HomeAnchor>>} ELSE {<<>>})
  /\ \E k \in Faults(variant) :
       /\ down = CASE k = "down1" -> {ContentKeys(variant)[1]}
                   [] k = "down2" -> {ContentKeys(variant)[2]}
                   [] k = "down0" -> {"/gr.html"}
                   [] OTHER -> {}
       /\ invalid = IF k = "invalid" THEN {1} ELSE {}
       /\ broken = IF k = "broken" THEN {1} ELSE {}
       /\ insert_fails = (k = "insert_fails")
       /\ no_embedding = IF k = "no_embedding" THEN {1} ELSE {}
  /\ storage \in InitStorages(variant)
  /\ InitRun
  /\ fin = NoInput
  /\ fout = NoInput

-----------------------------------------------------------------------------
(* The scraping runs: page lists and page scraping *)

Page(name, path) == [name |-> name, url |-> <<base_url, path>>]

\* the key of the content a page url or branch serves
KeyOf(page) == page.url[Len(page.url)]

\* run_additional_scraping: the calls of scrape_gr_page, scrape_notifications_page,
\* scrape_circulars_page and the two fallback calls
AdditionalVisits ==
  << Page("GR Page", "/gr.html"),
     Page("Notifications Page", "/Notifications.html"),
     Page("Circulars Page", "/circulars.html"),
     Page("Circulars Page", "/circulars.html"),
     Page("GR Page", "/gr.html") >>

\* discover_all_document_pages: known_pages
known_pages ==
  << Page("GR Page", "/gr.html"),
     Page("Circulars", "/circulars.html"),
     Page("Circulars (Fallback)", "/circulars.html"),
     Page("GR Page (Fallback)", "/gr.html"),
     Page("Notifications", "/Notifications.html"),
     Page("Rules", "/rules.html"),
     Page("Budget Documents", "/budget.html"),
     Page("Treasury Instructions", "/treasury.html"),
     Page("Pension Documents", "/pension.html"),
     Page("Finance Code", "/finance-code.html"),
     Page("PFMS Documents", "/pfms.html"),
     Page("Audit Reports", "/audit.html") >>

\* scrape_all_pages: pages
RealPages ==
  << Page("Home Page", "/"),
     Page("GR Page", "/gr.html"),
     Page("Circulars", "/circulars.html"),
     Page("Circulars (Fallback)", "/circulars.html"),
     Page("GR Page (Fallback)", "/gr.html"),
     Page("Notifications", "/Notifications.html"),
     Page("Rules", "/rules.html"),
     Page("Budget", "/Budget.html"),
     Page("Budget in Brief", "/Budget-in-brief.html"),
     Page("Budget Speech", "/Budget-speech.html"),
     Page("Pension", "/pension.html"),
     Page("Treasury", "/treasury.html") >>

\* run_branch_scraping: the branches, as visits
BranchVisits ==
  [i \in 1..Len(branches) |->
     [name |-> branches[i][2], url |-> <<base_url, "/gr.html", branches[i][2]>>]]

\* the li elements of the branch dropdown: three headers, the branches, two footers
DropdownItems == <<"hdr", "hdr", "hdr", BrK, BrM, BrGST, "ftr", "ftr">>

\* scrape_all_branches: range(start_idx, end_idx) over li_elements
WebVisits(items, maxb) ==
  LET start_idx == 3
      end0 == Len(items) - 2
      end_idx == IF maxb # 0 THEN Min(start_idx + maxb, end0) ELSE end0
  IN [i \in 1..(end_idx - start_idx) |->
        [name |-> items[start_idx + i], url |-> <<base_url, "/gr.html", items[start_idx + i]>>]]

\* the known pages that answer 200, in order
RECURSIVE FoundPages(_)
FoundPages(pages) ==
  IF pages = <<>> THEN <<>>
  ELSE (IF KeyOf(Head(pages)) \in SitePaths THEN <<Head(pages)>> ELSE <<>>)
         \o FoundPages(Tail(pages))

\* the pages added from the anchors of the main page
RECURSIVE DiscoveredPages(_, _)
DiscoveredPages(anchors, pages) ==
  IF anchors = <<>> THEN pages
  ELSE LET a == Head(anchors)
           full_url == IF Len(a.href) = 1 THEN <<base_url>> \o a.href ELSE a.href
       IN IF a.html /\ a.doc_word /\ a.href \notin {pages[i].url : i \in 1..Len(pages)}
          THEN DiscoveredPages(Tail(anchors),
                               Append(pages, [name |-> a.text, url |-> full_url]))
          ELSE DiscoveredPages(Tail(anchors), pages)

\* ComprehensiveScraper.discover_all_document_pages
discover_all_document_pages == DiscoveredPages(home, FoundPages(known_pages))

\* scrape_page / scrape_page_for_pdfs / scrape_branch_documents: the pdf links
\* of a page, or no link when the fetch or the parse fails
scrape_page(page) ==
  IF KeyOf(page) \in down THEN <<>>
  ELSE [i \in 1..Len(Content(KeyOf(page))) |->
          [url |-> Content(KeyOf(page))[i], page |-> page.name]]

-----------------------------------------------------------------------------
(* The scraping runs: actions *)

Get(f, b) == IF b \in DOMAIN f THEN f[b] ELSE 0

Bump(f, b) == (b :> (Get(f, b) + 1)) @@ f

\* the records of a branch first, in the order the branches were first met
RECURSIVE Grouped(_)
Grouped(docs) ==
  IF docs = <<>> THEN <<>>
  ELSE SelectSeq(docs, LAMBDA d : d.branch = Head(docs).branch)
         \o Grouped(SelectSeq(docs, LAMBDA d : d.branch # Head(docs).branch))

\* the first occurrence of every url of a page, in order
RECURSIVE FirstOccurrences(_, _)
FirstOccurrences(us, seen) ==
  IF us = <<>> THEN <<>>
  ELSE IF Head(us) \in seen THEN FirstOccurrences(Tail(us), seen)
  ELSE <<Head(us)>> \o FirstOccurrences(Tail(us), seen \cup {Head(us)})

\* the records of docs whose url is not in seen, each url once
RECURSIVE Unseen(_, _)
Unseen(docs, seen) ==
  IF docs = <<>> THEN <<>>
  ELSE IF Head(docs).pdf_url \in seen THEN Unseen(Tail(docs), seen)
  ELSE <<Head(docs)>> \o Unseen(Tail(docs), seen \cup {Head(docs).pdf_url})

\* extract_document_info of the three verifying scrapers: the record of a link
DocAdditional(link) ==
  Doc(link.url, ClassifyAdditional(WordsOf(link.url)), link.url \notin invalid)

DocComprehensive(link) ==
  Doc(link.url, ClassifyComprehensive(WordsOf(link.url), link.page),
      link.url \notin invalid)

DocBranch(link) == Doc(link.url, link.page, link.url \notin invalid)

\* mutant: a link that fails verification yields no record
ExtractedIfValid(link) == link.url \notin broken /\ link.url \notin invalid

\* mutant: a record is built for every link
ExtractedAlways(link) == TRUE

\* "if doc_info:" -- extract_document_info returns None when it raises
Extracted(link) == link.url \notin broken

\* mutant: the quota is not tested
UnderQuotaIgnored(count, limit) == TRUE

\* mutant: the quota test is off by one
UnderQuotaOffByOne(count, limit) == count <= limit

\* the quota tests: branch_counts.get(branch, 0) < 5,
\* len(branch_documents[branch]) < target_per_branch, branch_count < target_per_branch
UnderQuota(count, limit) == count < limit

\* the phase after the last page has been scraped
AfterScrape(links) == IF links = <<>> THEN "persist" ELSE "filter"

\* ComprehensiveScraper.run_comprehensive_scraping: discover_all_document_pages()
DiscoverPages ==
  /\ variant = "comprehensive"
  /\ pc = "idle"
  /\ document_pages' = discover_all_document_pages
  /\ pc' = "discovered"
  /\ UNCHANGED << worldVars, storage, funVars, navigation_route, run, idx, pdf_links, li,
                  existing_urls, branch_count, branch_counts, accepted,
                  valid_count, invalid_count, insert_calls, backups,
                  start_urls, prev_accepted >>

\* mutant: the run starts with an empty set of known urls
SeededUrlsForgotten(v, st) == {}

\* existing_urls = self.get_existing_pdf_urls(); seen_urls = set() in scrape_all_pages
SeededUrls(v, st) == IF v = "real" THEN {} ELSE StoredUrls(st)

Seed ==
  /\ \/ variant \in {"branch", "additional", "real"} /\ pc = "idle"
     \/ variant = "comprehensive" /\ pc = "discovered"
  /\ existing_urls' = SeededUrls(variant, storage)
  /\ document_pages' =
       CASE variant = "branch" -> BranchVisits
         [] variant = "additional" -> AdditionalVisits
         [] variant = "real" -> RealPages
         [] OTHER -> document_pages
  /\ branch_counts' = IF variant = "additional"
                      THEN (BrM :> 0) @@ (BrPayCell :> 0) ELSE <<>>
  /\ pc' = IF document_pages' = <<>> THEN "persist" ELSE "scrape"
  /\ UNCHANGED << worldVars, storage, funVars, navigation_route, run, idx, pdf_links, li,
                  branch_count, accepted, valid_count, invalid_count,
                  insert_calls, backups, start_urls, prev_accepted >>

\* all_pdf_links.extend(self.scrape_page(...)) of the additional and the
\* comprehensive run
ScrapePage ==
  /\ variant \in {"additional", "comprehensive"}
  /\ pc = "scrape"
  /\ idx < Len(document_pages)
  /\ pdf_links' = pdf_links \o scrape_page(document_pages[idx + 1])
  /\ idx' = idx + 1
  /\ pc' = IF idx' = Len(document_pages) THEN AfterScrape(pdf_links') ELSE "scrape"
  /\ UNCHANGED << worldVars, storage, funVars, navigation_route, run, document_pages, li,
                  existing_urls, branch_count, branch_counts, accepted,
                  valid_count, invalid_count, insert_calls, backups,
                  start_urls, prev_accepted >>

\* one iteration of "for pdf_link in all_pdf_links" of run_additional_scraping
FilterAdditional ==
  /\ variant = "additional"
  /\ pc = "filter"
  /\ li < Len(pdf_links)
  /\ LET link == pdf_links[li + 1]
         doc == DocAdditional(link)
         ok == link.url \notin existing_urls /\ Extracted(link)
         take == ok /\ UnderQuota(Get(branch_counts, doc.branch), AdditionalQuota)
         counts == IF take THEN Bump(branch_counts, doc.branch) ELSE branch_counts
         stop == take /\ \A b \in DOMAIN counts : counts[b] >= AdditionalQuota
     IN /\ valid_count' = IF ok /\ doc.pdf_valid THEN valid_count + 1 ELSE valid_count
        /\ invalid_count' = IF ok /\ ~doc.pdf_valid THEN invalid_count + 1 ELSE invalid_count
        /\ accepted' = IF take THEN Append(accepted, doc) ELSE accepted
        /\ branch_counts' = counts
        /\ li' = li + 1
        /\ pc' = IF stop \/ li' = Len(pdf_links) THEN "persist" ELSE "filter"
  /\ UNCHANGED << worldVars, storage, funVars, navigation_route, run, document_pages, idx,
                  pdf_links, existing_urls, branch_count, insert_calls,
                  backups, start_urls, prev_accepted >>

\* one iteration of "for pdf_link in all_pdf_links" of run_comprehensive_scraping
FilterComprehensive ==
  /\ variant = "comprehensive"
  /\ pc = "filter"
  /\ li < Len(pdf_links)
  /\ LET link == pdf_links[li + 1]
         doc == DocComprehensive(link)
         ok == link.url \notin existing_urls /\ Extracted(link)
         take == ok /\ UnderQuota(Get(branch_counts, doc.branch), target)
     IN /\ valid_count' = IF ok /\ doc.pdf_valid THEN valid_count + 1 ELSE valid_count
        /\ invalid_count' = IF ok /\ ~doc.pdf_valid THEN invalid_count + 1 ELSE invalid_count
        /\ accepted' = IF take THEN Append(accepted, doc) ELSE accepted
        /\ branch_counts' =
             IF take THEN Bump(branch_counts, doc.branch)
             ELSE IF ok THEN (doc.branch :> Get(branch_counts, doc.branch)) @@ branch_counts
             ELSE branch_counts
        /\ li' = li + 1
        /\ pc' = IF li' = Len(pdf_links) THEN "persist" ELSE "filter"
  /\ UNCHANGED << worldVars, storage, funVars, navigation_route, run, document_pages, idx,
                  pdf_links, existing_urls, branch_count, insert_calls,
                  backups, start_urls, prev_accepted >>

\* the phase after a branch of run_branch_scraping has been dealt with
AfterBranch(n) == IF n = Len(document_pages) THEN "persist" ELSE "scrape"

\* run_branch_scraping: the head of one iteration of "for ... in branches":
\* the skip of a branch that has enough documents, scrape_branch_documents
ScrapeBranch ==
  /\ variant = "branch"
  /\ pc = "scrape"
  /\ idx < Len(document_pages)
  /\ LET page == document_pages[idx + 1]
         skip == Len(DocumentsByBranch(storage, page.name)) >= SkipThreshold
         links == IF skip THEN <<>> ELSE scrape_page(page)
     IN /\ pdf_links' = links
        /\ branch_count' = IF skip THEN branch_count ELSE 0
        /\ li' = 0
        /\ idx' = IF links = <<>> THEN idx + 1 ELSE idx
        /\ pc' = IF links = <<>> THEN AfterBranch(idx + 1) ELSE "filter"
  /\ UNCHANGED << worldVars, storage, funVars, navigation_route, run, document_pages,
                  existing_urls, branch_counts, accepted, valid_count,
                  invalid_count, insert_calls, backups, start_urls,
                  prev_accepted >>

\* one iteration of "for pdf_link in pdf_links" of run_branch_scraping
FilterBranch ==
  /\ variant = "branch"
  /\ pc = "filter"
  /\ li < Len(pdf_links)
  /\ LET link == pdf_links[li + 1]
         doc == DocBranch(link)
         ok == /\ link.url \notin existing_urls
               /\ UnderQuota(branch_count, target)
               /\ Extracted(link)
     IN /\ valid_count' = IF ok /\ doc.pdf_valid THEN valid_count + 1 ELSE valid_count
        /\ invalid_count' = IF ok /\ ~doc.pdf_valid THEN invalid_count + 1 ELSE invalid_count
        /\ accepted' = IF ok THEN Append(accepted, doc) ELSE accepted
        /\ existing_urls' = IF ok THEN existing_urls \cup {link.url} ELSE existing_urls
        /\ branch_count' = IF ok THEN branch_count + 1 ELSE branch_count
        /\ li' = li + 1
        /\ idx' = IF li' = Len(pdf_links) THEN idx + 1 ELSE idx
        /\ pc' = IF li' = Len(pdf_links) THEN AfterBranch(idx + 1) ELSE "filter"
  /\ UNCHANGED << worldVars, storage, funVars, navigation_route, run, document_pages, pdf_links,
                  branch_counts, insert_calls, backups, start_urls,
                  prev_accepted >>

\* the first n elements of a sequence
Take(s, n) == SubSeq(s, 1, Min(n, Len(s)))

\* the substrings of a pdf url that extract_branch tests (none for /Documents/ urls)
UrlTagsOf(u) == {}

\* RealDocumentScraper.scrape_page_for_pdfs(page_name, page_url, max_pdfs):
\* the links of the page without repetition, the first max_pdfs of them
\* verified, a record for each valid one; no record when anything raises
scrape_page_for_pdfs(page, max_pdfs) ==
  IF KeyOf(page) \in down \/ KeyOf(page) \notin SitePaths THEN <<>>
  ELSE LET found == FirstOccurrences(Content(KeyOf(page)), {})
           checked == Take(found, max_pdfs)
           valid == SelectSeq(checked, LAMBDA u : u \notin invalid)
       IN IF \E i \in 1..Len(valid) : valid[i] \in broken THEN <<>>
          ELSE [i \in 1..Len(valid) |->
                  Doc(valid[i], ClassifyReal(WordsOf(valid[i]), UrlTagsOf(valid[i])), TRUE)]

\* mutant: scrape_all_pages saves the records of a page as soon as it has
\* scraped the page
ScrapeRealSavingPerPage ==
  /\ variant = "real"
  /\ pc = "scrape"
  /\ idx < Len(document_pages)
  /\ LET docs == scrape_page_for_pdfs(document_pages[idx + 1], target)
         new == Unseen(docs, existing_urls)
     IN /\ accepted' = accepted \o new
        /\ existing_urls' = existing_urls \cup UrlsOf(new)
        /\ valid_count' = valid_count + Len(new)
        /\ insert_calls' = IF new # <<>> THEN Append(insert_calls, new) ELSE insert_calls
        /\ storage' = IF new # <<>> THEN InsertDocuments(storage, new) ELSE storage
  /\ idx' = idx + 1
  /\ pc' = IF idx' = Len(document_pages) THEN "persist" ELSE "scrape"
  /\ UNCHANGED << worldVars, funVars, navigation_route, run, document_pages, pdf_links,
                  li, branch_count, branch_counts, invalid_count,
                  backups, start_urls, prev_accepted >>

\* one iteration of "for page_name, page_url in pages" of scrape_all_pages
ScrapeReal ==
  /\ variant = "real"
  /\ pc = "scrape"
  /\ idx < Len(document_pages)
  /\ LET docs == scrape_page_for_pdfs(document_pages[idx + 1], target)
         new == Unseen(docs, existing_urls)
     IN /\ accepted' = accepted \o new
        /\ existing_urls' = existing_urls \cup UrlsOf(new)
        /\ valid_count' = valid_count + Len(new)
  /\ idx' = idx + 1
  /\ pc' = IF idx' = Len(document_pages) THEN "persist" ELSE "scrape"
  /\ UNCHANGED << worldVars, storage, funVars, navigation_route, run, document_pages, pdf_links,
                  li, branch_count, branch_counts, invalid_count,
                  insert_calls, backups, start_urls, prev_accepted >>

\* docs_with_embeddings of save_documents_to_database: the records whose
\* embedding could be computed; the other scrapers compute no embedding
DocsWithEmbeddings(v, docs) ==
  IF v = "additional"
  THEN SelectSeq(docs, LAMBDA d : d.pdf_url \notin no_embedding)
  ELSE docs

\* mutant: the snapshot holds the records that were stored
SnapshotOfStored(docs, prepared) == IF insert_fails THEN <<>> ELSE prepared

\* json.dump(new_documents, f): the records of the snapshot
Snapshot(docs, prepared) == docs

\* the end of a run: save_documents_to_database and the backup of the additional
\* run; the backup of the branch and the comprehensive run; save_documents of
\* the real scraper. db.insert_documents does not raise when the insert fails
Persist ==
  /\ variant \in {"additional", "comprehensive", "branch", "real"}
  /\ pc = "persist"
  /\ LET docs == IF variant = "comprehensive" THEN Grouped(accepted) ELSE accepted
         prepared == DocsWithEmbeddings(variant, docs)
         saves == variant \in {"additional", "real"} /\ prepared # <<>>
     IN /\ accepted' = docs
        /\ insert_calls' = IF saves THEN Append(insert_calls, prepared) ELSE insert_calls
        /\ storage' = IF saves /\ ~insert_fails
                      THEN InsertDocuments(storage, prepared) ELSE storage
        /\ backups' = IF docs # <<>>
                      THEN Append(backups, Snapshot(docs, prepared)) ELSE backups
  /\ pc' = "done"
  /\ UNCHANGED << worldVars, funVars, navigation_route, run, document_pages, idx, pdf_links, li,
                  existing_urls, branch_count, branch_counts, valid_count,
                  invalid_count, start_urls, prev_accepted >>

\* WebScraper.scrape_all_branches: driver.get and the branch dropdown
WebStart ==
  /\ variant = "web"
  /\ pc = "idle"
  /\ IF "/gr.html" \in down
     THEN /\ pc' = "done"
          /\ UNCHANGED document_pages
     ELSE /\ document_pages' = WebVisits(DropdownItems, max_branches)
          /\ pc' = IF document_pages' = <<>> THEN "done" ELSE "scrape"
  /\ UNCHANGED << worldVars, storage, funVars, navigation_route, run, idx, pdf_links, li,
                  existing_urls, branch_count, branch_counts, accepted,
                  valid_count, invalid_count, insert_calls, backups,
                  start_urls, prev_accepted >>

\* WebScraper.scrape_branch(driver, branch_name, max_records): the records of
\* the rows of the table
scrape_branch(page, max_records) ==
  LET rows == Take(Content(KeyOf(page)), max_records)
  IN [i \in 1..Len(rows) |-> Doc(rows[i], page.name, TRUE)]

\* one iteration of "for i in range(start_idx, end_idx)" of scrape_all_branches;
\* an exception leaves the loop
WebBranch ==
  /\ variant = "web"
  /\ pc = "scrape"
  /\ idx < Len(document_pages)
  /\ IF KeyOf(document_pages[idx + 1]) \in down
     THEN /\ pc' = "done"
          /\ UNCHANGED << idx, accepted, insert_calls, storage >>
     ELSE LET branch_data == scrape_branch(document_pages[idx + 1], target)
          IN /\ accepted' = accepted \o branch_data
             /\ insert_calls' = IF branch_data # <<>>
                                THEN Append(insert_calls, branch_data) ELSE insert_calls
             /\ storage' = IF branch_data # <<>>
                           THEN InsertDocuments(storage, branch_data) ELSE storage
             /\ idx' = idx + 1
             /\ pc' = IF idx' = Len(document_pages) THEN "done" ELSE "scrape"
  /\ UNCHANGED << worldVars, funVars, navigation_route, run, document_pages, pdf_links, li,
                  existing_urls, branch_count, branch_counts, valid_count,
                  invalid_count, backups, start_urls, prev_accepted >>

Next ==
  \/ DiscoverPages
  \/ Seed
  \/ ScrapePage
  \/ FilterAdditional
  \/ FilterComprehensive
  \/ ScrapeBranch
  \/ FilterBranch
  \/ ScrapeReal
  \/ Persist
  \/ WebStart
  \/ WebBranch

Spec == Init /\ [][Next]_vars

-----------------------------------------------------------------------------
(* A second run against the same site *)

\* the operator loads the backup of a run that does not save into storage
InsertBackup ==
  /\ variant \in {"branch", "comprehensive"}
  /\ pc = "done"
  /\ run = 1
  /\ backups # <<>>
  /\ insert_calls = <<>>
  /\ insert_calls' = Append(insert_calls, backups[Len(backups)])
  /\ storage' = InsertDocuments(storage, backups[Len(backups)])
  /\ UNCHANGED << worldVars, funVars, navigation_route, run, pc, document_pages, idx, pdf_links,
                  li, existing_urls, branch_count, branch_counts, accepted,
                  valid_count, invalid_count, backups, start_urls,
                  prev_accepted >>

\* the script is started again
Rerun ==
  /\ variant \in {"branch", "comprehensive", "additional"}
  /\ pc = "done"
  /\ run = 1
  /\ run' = 2
  /\ pc' = "idle"
  /\ document_pages' = <<>>
  /\ idx' = 0
  /\ pdf_links' = <<>>
  /\ li' = 0
  /\ existing_urls' = {}
  /\ branch_count' = 0
  /\ branch_counts' = <<>>
  /\ accepted' = <<>>
  /\ valid_count' = 0
  /\ invalid_count' = 0
  /\ insert_calls' = <<>>
  /\ backups' = <<>>
  /\ start_urls' = StoredUrls(storage)
  /\ prev_accepted' = accepted
  /\ UNCHANGED << worldVars, storage, funVars, navigation_route >>

NextRerun == Next \/ InsertBackup \/ Rerun

SpecRerun == Init /\ [][NextRerun]_vars

-----------------------------------------------------------------------------
(* The metadata functions on their own *)

WordSets == {ws \in SUBSET Vocabulary : Cardinality(ws) <= MaxWords}

MatchChoices == {{}, {1}, {5}, {4, 5}}

ExtractInputs ==
  [kind : {"extract"},
   scraper : {"branch", "comprehensive", "additional"},
   matches : MatchChoices,
   fname : SeqsUpTo(FnameTokens, MaxFname),
   urlTags : SUBSET UrlTagNames,
   hv : HashSamples]

ClassifyInputs ==
  [kind : {"classify"}, scraper : {"comprehensive"}, words : WordSets,
   page : PageNames, urlTags : {{}}]
  \cup [kind : {"classify"}, scraper : {"additional"}, words : WordSets,
        page : {"GR Page"}, urlTags : {{}}]
  \cup [kind : {"classify"}, scraper : {"real"}, words : WordSets,
        page : {"GR Page"}, urlTags : {{}, {"rule"}, {"notif"}, {"circular"}, {"gr"}}]

\* file names of pdf documents: tokens, the extension last
FileNames ==
  { <<"M", "_", "2641", "_", "17-Apr-2023", "_", "450", ".pdf">>,
    <<"Cir", "_", "2", "_", "2016-11-9", "_", "814", ".PDF">>,
    <<"report", ".pdf">>,
    <<"doc", ".Pdf">>,
    <<"page", ".html">> }

\* the forms of the href of an anchor: "/Documents/x.pdf", "Documents/x.pdf",
\* "http://host/Documents/x.pdf", "//host/x.pdf", "httpx.pdf"
HrefForms == {"rooted", "relative", "absolute", "protocol_relative", "http_name"}

Href(form, fname) ==
  CASE form = "rooted" -> <<"/", "Documents/">> \o fname
    [] form = "relative" -> <<"Documents/">> \o fname
    [] form = "absolute" -> <<"http://host", "/", "Documents/">> \o fname
    [] form = "protocol_relative" -> <<"/", "/", "host", "/">> \o fname
    [] OTHER -> <<"http">> \o fname

\* '.pdf' in href.lower()
IsPdfLink(href) == Range(href) \cap {".pdf", ".PDF", ".Pdf"} # {}

\* full_url of the link: base_url + href when href starts with '/', href
\* itself when it starts with 'http', else base_url + '/' + href.lstrip('/')
FullUrl(form, fname) ==
  LET href == Href(form, fname)
  IN IF href[1] = "/" THEN <<base_url>> \o href
     ELSE IF href[1] \in {"http://host", "http"} THEN href
     ELSE <<base_url, "/">> \o href

\* datetime.now().strftime("%Y-%m-%d")
Todays == {"2023-04-17", "2026-11-01"}

\* the text of the first match of date_patterns in combined_text, "" for none
TextDates == {"", "01-Jan-2020"}

\* date_str of extract_document_info: today unless a date pattern matches
\* text + ' ' + context
DateStr(textDate, today) == IF textDate # "" THEN textDate ELSE today

\* subject of extract_document_info: text, else context, else
\* "<page> Document"; cut after 200 characters
Subject(text, context, page, long) ==
  LET subject == IF text # {} THEN text
                 ELSE IF context # {} THEN context
                 ELSE {page, "Document"}
  IN [words |-> subject, cut |-> long /\ (text # {} \/ context # {})]

RecordInputs ==
  [kind : {"record"},
   scraper : {"comprehensive", "branch"},
   text : {{}, {"pay", "employee"}, {"notice"}},
   context : {{}, {"audit"}},
   long : BOOLEAN,
   matches : {{}, {1}},
   textDate : TextDates,
   form : HrefForms,
   fname : FileNames,
   page : {"GR Page"},
   branch_name : {BrM},
   urlTags : {{}},
   hv : {99999},
   today : Todays]

InitFun ==
  /\ variant = "branch"
  /\ target = 1
  /\ max_branches = 0
  /\ content = (BrK :> <<>>) @@ (BrM :> <<>>)
  /\ home = <<>>
  /\ down = {}
  /\ invalid = {}
  /\ broken = {}
  /\ insert_fails = FALSE
  /\ no_embedding = {}
  /\ storage = <<>>
  /\ InitRun
  /\ fin \in ExtractInputs \cup ClassifyInputs \cup RecordInputs
  /\ fout = NoInput

\* extract_document_info: the gr_no of the record
ExtractGrNo ==
  /\ fin.kind = "extract"
  /\ fout = NoInput
  /\ fout' = [kind |-> "gr_no",
              gr_no |-> CASE fin.scraper = "branch" ->
                               GrNoBranch(fin.matches, fin.fname, fin.urlTags, fin.hv)
                          [] fin.scraper = "additional" ->
                               GrNoAdditional(fin.matches, fin.fname, fin.urlTags, fin.hv)
                          [] OTHER ->
                               GrNoComprehensive(fin.matches, fin.fname, fin.urlTags, fin.hv)]
  /\ UNCHANGED << worldVars, storage, runVars, fin >>

\* classify_document_branch / extract_branch: the branch of the record
ClassifyDocument ==
  /\ fin.kind = "classify"
  /\ fout = NoInput
  /\ fout' = [kind |-> "branch",
              branch |-> CASE fin.scraper = "comprehensive" ->
                                ClassifyComprehensive(fin.words, fin.page)
                           [] fin.scraper = "additional" -> ClassifyAdditional(fin.words)
                           [] OTHER -> ClassifyReal(fin.words, fin.urlTags)]
  /\ UNCHANGED << worldVars, storage, runVars, fin >>

\* scrape_page_for_pdfs / scrape_branch_documents building the link of an
\* anchor, then extract_document_info building its record
ExtractDocumentInfo ==
  /\ fin.kind = "record"
  /\ fout = NoInput
  /\ IsPdfLink(Href(fin.form, fin.fname))
  /\ LET url == FullUrl(fin.form, fin.fname)
     IN fout' =
          [kind |-> "record",
           gr_no |-> IF fin.scraper = "branch"
                     THEN GrNoBranch(fin.matches, fin.fname, fin.urlTags, fin.hv)
                     ELSE GrNoComprehensive(fin.matches, fin.fname, fin.urlTags, fin.hv),
           date |-> DateStr(fin.textDate, fin.today),
           subject_en |-> Subject(fin.text, fin.context,
                                  IF fin.scraper = "branch" THEN fin.branch_name
                                  ELSE fin.page, fin.long),
           branch |-> IF fin.scraper = "branch" THEN fin.branch_name
                      ELSE ClassifyComprehensive(fin.text \cup fin.context, fin.page),
           pdf_url |-> url]
  /\ UNCHANGED << worldVars, storage, runVars, fin >>

\* extract_document_info on the same link in another process: hash(url) of a
\* str is salted per process, its value there is any of the hash values
ExtractGrNoAgain ==
  /\ fin.kind = "extract"
  /\ fout.kind = "gr_no"
  /\ \E hv2 \in HashSamples :
       fout' = [kind |-> "gr_no_again",
                gr_no |-> fout.gr_no,
                again |-> CASE fin.scraper = "branch" ->
                                 GrNoBranch(fin.matches, fin.fname, fin.urlTags, hv2)
                            [] fin.scraper = "additional" ->
                                 GrNoAdditional(fin.matches, fin.fname, fin.urlTags, hv2)
                            [] OTHER ->
                                 GrNoComprehensive(fin.matches, fin.fname, fin.urlTags, hv2)]
  /\ UNCHANGED << worldVars, storage, runVars, fin >>

NextFun == ExtractGrNo \/ ClassifyDocument \/ ExtractDocumentInfo \/ ExtractGrNoAgain

SpecFun == InitFun /\ [][NextFun]_vars

-----------------------------------------------------------------------------
(* Properties *)

VerifyingVariants == {"branch", "comprehensive", "additional"}

\* the records of a sequence have pairwise different urls
NoDuplicateUrls(docs) ==
  \A i, j \in 1..Len(docs) : i # j => docs[i].pdf_url # docs[j].pdf_url

\* the number of records of a branch
AcceptedCount(docs, b) == Len(SelectSeq(docs, LAMBDA d : d.branch = b))

\* C5: the gr_no of the record built by the extraction step of the
\* branch-targeted, the comprehensive and the additional scraper is never
\* empty, whatever the text, the context and the url of the link
C5_GrNoNeverEmpty == fout.kind = "gr_no" => fout.gr_no # <<>>

\* C5 witness: extraction has run on a link without pattern match whose url
\* ends in an empty file name
C5_Witness ==
  /\ fout.kind = "gr_no"
  /\ fin.matches = {}
  /\ UrlParts(fin.fname) = <<>>

\* C6: the branch every classifier variant returns belongs to the branch
\* enumeration of the branch-targeted run and of the search tool
C6_BranchInEnumeration == fout.kind = "branch" => fout.branch \in ToolBranchEnum

\* C2: within one run of the additional, the comprehensive and the
\* branch-targeted scraper no two accepted records have the same pdf_url
C2_NoIntraRunDuplicates ==
  variant \in VerifyingVariants => NoDuplicateUrls(accepted)

\* C3: in every scraper variant that keeps a known-URL set, no record is
\* accepted whose pdf_url was in storage when the run started
C3_NoStoredUrlAccepted ==
  variant \in VerifyingVariants \cup {"real"} =>
    \A i \in 1..Len(accepted) : accepted[i].pdf_url \notin start_urls

\* C7: a finished run of the branch-targeted, the comprehensive or the
\* additional scraper that accepted records has handed exactly these
\* records to the storage insert, in one call
C7_FinalPersistence ==
  (variant \in VerifyingVariants /\ pc = "done" /\ accepted # <<>>) =>
    insert_calls = <<accepted>>

\* C9: a page or branch that fails does not keep the run from visiting the
\* remaining pages or branches: a finished run has visited all of them
C9_AllPagesVisited == pc = "done" => idx = Len(document_pages)

\* the pages or branches a run of a variant visits
VisitsOf(v) ==
  CASE v = "branch" -> BranchVisits
    [] v = "additional" -> AdditionalVisits
    [] v = "comprehensive" -> discover_all_document_pages
    [] v = "real" -> RealPages
    [] OTHER -> WebVisits(DropdownItems, max_branches)

\* the links of a list of pages, one after the other
RECURSIVE LinksOf(_)
LinksOf(pages) ==
  IF pages = <<>> THEN <<>> ELSE scrape_page(Head(pages)) \o LinksOf(Tail(pages))

\* the links the run gets from the pages that answer
UpLinks == LinksOf(VisitsOf(variant))

\* the record the extraction step of the running variant builds for a link
RecordOf(link) ==
  CASE variant = "branch" -> DocBranch(link)
    [] variant = "additional" -> DocAdditional(link)
    [] OTHER -> DocComprehensive(link)

\* the quota of the run
Quota == IF variant = "additional" THEN AdditionalQuota ELSE target

AllBranchValues == ToolBranchEnum \cup {BrT, BrF, BrAU, BrZEco}

\* the links among links that are not known at the start of the run
NewLinks(links) == {i \in 1..Len(links) : links[i].url \notin start_urls}

\* the number of new documents of a branch that extract successfully
NewCount(links, b) ==
  Cardinality({links[i].url : i \in
                 {j \in NewLinks(links) :
                    /\ links[j].url \notin broken
                    /\ RecordOf(links[j]).branch = b}})

\* the new links of the source are n separate links (no document is yielded
\* twice), all of branch b, and all extract successfully
SingleBranchCase(links, b) ==
  LET new == NewLinks(links)
  IN /\ \A i, j \in new : links[i].url = links[j].url => i = j
     /\ \A i \in new :
          RecordOf(links[i]).branch = b /\ links[i].url \notin broken

\* the branch-targeted run skips a branch that has enough stored documents
Skipped(b) ==
  variant = "branch" /\ Len(DocumentsByBranch(storage, b)) >= SkipThreshold

WithinQuota(links) ==
  \A b \in AllBranchValues :
    Cardinality({i \in 1..Len(links) : RecordOf(links[i]).branch = b}) <= Quota

\* the records the first run accepted are in storage when the second starts
FirstRunPersisted == run = 2 /\ UrlsOf(prev_accepted) \subseteq start_urls

Rank(p) ==
  CASE p = "idle" -> 0
    [] p = "discovered" -> 1
    [] p = "scrape" -> 2
    [] p = "filter" -> 3
    [] p = "persist" -> 4
    [] OTHER -> 5

\* a step keeps the order of the phases, Scraping being re-entered per page
\* or branch
PhaseOrderKept ==
  /\ Rank(pc') >= Rank(pc) \/ (pc = "filter" /\ pc' = "scrape")
  /\ Rank(pc) >= Rank("persist") => Rank(pc') >= Rank(pc)

\* a step made after the first insert_documents call scrapes nothing
NoScrapingAfterInsert ==
  insert_calls # <<>> => (idx' = idx /\ pdf_links' = pdf_links)

DroppedInvalid(links) ==
  {i \in 1..Len(links) :
     /\ links[i].url \in invalid
     /\ links[i].url \notin start_urls
     /\ links[i].url \notin broken
     /\ links[i].url \notin UrlsOf(accepted)
     /\ AcceptedCount(accepted, RecordOf(links[i]).branch) < Quota
     /\ ~Skipped(RecordOf(links[i]).branch)}

\* a link among the first max_pdfs of a page of the RealDocumentScraper that
\* failed verification and has no record
DroppedInvalidReal ==
  {u \in invalid \ (start_urls \cup UrlsOf(accepted)) :
     /\ broken = {}
     /\ \E i \in 1..Len(RealPages) :
          LET key == KeyOf(RealPages[i])
          IN /\ key \in SitePaths
             /\ key \notin down
             /\ u \in Range(Take(FirstOccurrences(Content(key), {}), target))}

-----------------------------------------------------------------------------
(* The navigation route of the links of a run.  A step description is the  *)
(* sequence of its crumbs; joining descriptions with the arrow separator   *)
(* gives the sequence of all their crumbs.                                 *)

\* add_route_step(step): the route with one more step
add_route_step(route, step) == Append(route, step)

\* " → ".join(step['description'] ...) of get_current_route
RECURSIVE JoinSteps(_)
JoinSteps(steps) ==
  IF steps = <<>> THEN <<>> ELSE Head(steps) \o JoinSteps(Tail(steps))

\* the step a page function records when it is entered
PageStep(v, page) ==
  IF v = "branch" THEN <<"Home Page", "GR Page", page.name>>
  ELSE <<"Home Page", page.name>>

\* the route steps once the page function has made its requests: the
\* branch scraper calls get_form_data, which records "Home Page"
StepsAtPage(v, route, page) ==
  LET entered == add_route_step(route, PageStep(v, page))
  IN IF v = "branch" THEN add_route_step(entered, <<"Home Page">>) ELSE entered

\* the links of a page with their navigation_route: get_current_route is
\* called for every link and empties the route
RoutedLinks(v, route, page) ==
  LET links == scrape_page(page)
  IN [i \in 1..Len(links) |->
        [url |-> links[i].url, page |-> links[i].page,
         navigation_route |->
           IF i = 1 THEN JoinSteps(StepsAtPage(v, route, page)) ELSE <<>>]]

\* the route steps left when the page function returns
RouteAfterPage(v, route, page) ==
  IF scrape_page(page) = <<>> THEN StepsAtPage(v, route, page) ELSE <<>>

\* the start of a run up to its page loop; discover_all_document_pages
\* records "Home Page" before it reads the main page
RouteStart ==
  /\ variant \in VerifyingVariants
  /\ pc = "idle"
  /\ document_pages' = VisitsOf(variant)
  /\ navigation_route' = IF variant = "comprehensive"
                         THEN add_route_step(navigation_route, <<"Home Page">>)
                         ELSE navigation_route
  /\ pc' = IF document_pages' = <<>> THEN "done" ELSE "scrape"
  /\ UNCHANGED << worldVars, storage, funVars, run, idx, pdf_links, li,
                  existing_urls, branch_count, branch_counts, accepted,
                  valid_count, invalid_count, insert_calls, backups,
                  start_urls, prev_accepted >>

\* one call of scrape_page / scrape_page_for_pdfs / scrape_branch_documents
RouteScrapePage ==
  /\ variant \in VerifyingVariants
  /\ pc = "scrape"
  /\ idx < Len(document_pages)
  /\ LET page == document_pages[idx + 1]
     IN /\ pdf_links' = pdf_links \o RoutedLinks(variant, navigation_route, page)
        /\ navigation_route' = RouteAfterPage(variant, navigation_route, page)
  /\ idx' = idx + 1
  /\ pc' = IF idx' = Len(document_pages) THEN "done" ELSE "scrape"
  /\ UNCHANGED << worldVars, storage, funVars, run, document_pages, li,
                  existing_urls, branch_count, branch_counts, accepted,
                  valid_count, invalid_count, insert_calls, backups,
                  start_urls, prev_accepted >>

NextRoute == RouteStart \/ RouteScrapePage

SpecRoute == Init /\ [][NextRoute]_vars

\* the breadcrumb of the page a link was extracted from
Breadcrumb(v, name) ==
  IF v = "branch" THEN <<"Home Page", "GR Page", name>> ELSE <<"Home Page", name>>

\* C11: every link extracted from a page (and so every record built from
\* it, which copies the link's navigation_route) carries the breadcrumb of
\* its own page as navigation_route: not empty, and without steps of
\* another page or branch
C11_RouteIsBreadcrumb ==
  \A i \in 1..Len(pdf_links) :
    pdf_links[i].navigation_route = Breadcrumb(variant, pdf_links[i].page)

-----------------------------------------------------------------------------
(* The verifier: verify_pdf_url *)

None == "None"

\* the outcomes of a request: a response, or an exception of the request
StatusCodes == {200, 404, 405}

ContentTypes == {"application/pdf", "Application/PDF", "text/html", ""}

\* the Content-Length header: absent, or its text
ContentLengths == {"absent", "0", "450", "-1", "abc"}

FinalUrls == {"pdf_url", "landing_url"}

RequestErrors == {"Timeout", "ConnectionError", "OtherError"}

HeadOutcomes ==
  [kind : {"response"}, status : StatusCodes, ctype : ContentTypes,
   clen : ContentLengths, url : {"pdf_url"}]
  \cup [kind : {"exception"}, type : RequestErrors]

GetOutcomes ==
  [kind : {"response"}, status : StatusCodes, ctype : ContentTypes,
   clen : {"absent"}, url : FinalUrls]
  \cup [kind : {"exception"}, type : RequestErrors]

\* 'pdf' in content_type.lower()
HasPdf(ctype) == ctype \in {"application/pdf", "Application/PDF"}

\* int(content_length) is defined
Numeric(clen) == clen # "abc"

\* int(response.headers.get('Content-Length', 0))
IntOf(clen) ==
  CASE clen = "450" -> 450
    [] clen = "-1" -> -1
    [] OTHER -> 0

Verdict(valid, fallback, message, requests) ==
  [kind |-> "verdict", valid |-> valid, fallback_url |-> fallback,
   message |-> message, requests |-> requests]

Raise(type, requests) == [kind |-> "exception", type |-> type, requests |-> requests]

\* the second step of verify_pdf_url: the GET request and its verdict
GetStep(get) ==
  LET requests == <<"HEAD", "GET">>
  IN IF get.kind = "exception" THEN Raise(get.type, requests)
     ELSE IF get.status = 200
     THEN IF HasPdf(get.ctype)
          THEN Verdict(TRUE, None, "PDF accessible directly", requests)
          ELSE Verdict(FALSE, get.url,
                       "PDF not directly accessible - use fallback page link", requests)
     ELSE Verdict(FALSE, None,
                  "PDF not accessible (HTTP " \o ToString(get.status) \o ")", requests)

\* mutant: the HEAD check trusts the content type only
HeadValidPdfOnly(head) == head.status = 200 /\ HasPdf(head.ctype)

\* the test of the HEAD response, where int() has a value
HeadValid(head) ==
  head.status = 200 /\ (HasPdf(head.ctype) \/ IntOf(head.clen) > 0)

\* the body of the try block of verify_pdf_url
Attempt(head, get) ==
  IF head.kind = "exception" THEN Raise(head.type, <<"HEAD">>)
  ELSE IF head.status = 200 /\ ~HasPdf(head.ctype) /\ ~Numeric(head.clen)
  THEN Raise("ValueError", <<"HEAD">>)
  ELSE IF HeadValid(head)
  THEN Verdict(TRUE, None, "PDF accessible directly", <<"HEAD">>)
  ELSE GetStep(get)

\* mutant: only the exceptions of requests are handled
HandleRequestErrorsOnly(exc) ==
  CASE exc.type = "Timeout" ->
         Verdict(FALSE, None,
                 "Request timed out - try accessing via fallback page", exc.requests)
    [] exc.type = "ConnectionError" ->
         Verdict(FALSE, None,
                 "Connection error - try accessing via fallback page", exc.requests)
    [] OTHER -> [kind |-> "raised", type |-> exc.type, requests |-> exc.requests]

\* the except clauses of verify_pdf_url
Handle(exc) ==
  CASE exc.type = "Timeout" ->
         Verdict(FALSE, None,
                 "Request timed out - try accessing via fallback page", exc.requests)
    [] exc.type = "ConnectionError" ->
         Verdict(FALSE, None,
                 "Connection error - try accessing via fallback page", exc.requests)
    [] OTHER -> Verdict(FALSE, None, "Error: " \o exc.type, exc.requests)

verify_pdf_url(head, get) ==
  LET r == Attempt(head, get)
  IN IF r.kind = "exception" THEN Handle(r) ELSE r

VerifyInputs == [kind : {"verify"}, head : HeadOutcomes, get : GetOutcomes]

InitVerify ==
  /\ variant = "branch"
  /\ target = 1
  /\ max_branches = 0
  /\ content = (BrK :> <<>>) @@ (BrM :> <<>>)
  /\ home = <<>>
  /\ down = {}
  /\ invalid = {}
  /\ broken = {}
  /\ insert_fails = FALSE
  /\ no_embedding = {}
  /\ storage = <<>>
  /\ InitRun
  /\ fin \in VerifyInputs
  /\ fout = NoInput

\* a call of verify_pdf_url on a url whose requests have the outcomes of fin
VerifyPdfUrl ==
  /\ fin.kind = "verify"
  /\ fout = NoInput
  /\ fout' = verify_pdf_url(fin.head, fin.get)
  /\ UNCHANGED << worldVars, storage, runVars, fin >>

NextVerify == VerifyPdfUrl

SpecVerify == InitVerify /\ [][NextVerify]_vars

Verified == fout # NoInput

Is200(outcome) == outcome.kind = "response" /\ outcome.status = 200

IsHtml200(outcome) == Is200(outcome) /\ outcome.ctype = "text/html"

\* C12 as claimed: HEAD 200 with a pdf content type gives valid with no
\* fallback url; 200 text/html on HEAD and GET gives invalid with the final
\* url as fallback url, whatever Content-Length is declared
C12_VerifierVerdicts ==
  Verified =>
    /\ (Is200(fin.head) /\ HasPdf(fin.head.ctype)) =>
         (fout.kind = "verdict" /\ fout.valid /\ fout.fallback_url = None)
    /\ (IsHtml200(fin.head) /\ IsHtml200(fin.get)) =>
         (fout.kind = "verdict" /\ ~fout.valid /\ fout.fallback_url = fin.get.url)

\* C12 amended: HEAD 200 with a pdf content type gives valid with no
\* fallback url; 200 text/html on HEAD and GET gives invalid with the final
\* url as fallback url when the HEAD response declares no positive
\* Content-Length (absent, 0 or negative); with a positive Content-Length
\* the HEAD check marks the url valid, and with a Content-Length that is
\* not a number the verdict is invalid without fallback url
C12_VerifierVerdictsByContentLength ==
  Verified =>
    /\ fout.kind = "verdict"
    /\ (Is200(fin.head) /\ HasPdf(fin.head.ctype)) =>
         (fout.valid /\ fout.fallback_url = None)
    /\ (IsHtml200(fin.head) /\ IsHtml200(fin.get)) =>
         CASE fin.head.clen \in {"absent", "0", "-1"} ->
                ~fout.valid /\ fout.fallback_url = fin.get.url
           [] fin.head.clen = "450" -> fout.valid /\ fout.fallback_url = None
           [] OTHER -> ~fout.valid /\ fout.fallback_url = None

\* C12 witness: an html page without Content-Length has been verified as
\* invalid, with the landing page as fallback url
C12_Witness ==
  /\ Verified
  /\ IsHtml200(fin.head) /\ fin.head.clen = "absent"
  /\ IsHtml200(fin.get) /\ fin.get.url = "landing_url"
  /\ ~fout.valid
  /\ fout.fallback_url = "landing_url"

\* the HEAD check marked the url valid
HeadMarkedValid(head) ==
  /\ Is200(head)
  /\ HasPdf(head.ctype) \/ (Numeric(head.clen) /\ IntOf(head.clen) > 0)

\* C13: whenever the HEAD check does not mark the url valid (non-200, 200
\* with neither pdf type nor positive length, or a HEAD request that fails),
\* a GET is issued before the verdict, and a GET answering 200 with a pdf
\* content type makes the url valid
C13_GetBeforeInvalid ==
  (Verified /\ ~HeadMarkedValid(fin.head)) =>
    /\ fout.requests = <<"HEAD", "GET">>
    /\ (Is200(fin.get) /\ HasPdf(fin.get.ctype)) => fout.valid

\* the outcome of the last request issued
LastOutcome == IF Len(fout.requests) = 2 THEN fin.get ELSE fin.head

\* C14: verify_pdf_url never raises and returns a boolean valid and a
\* message; a last outcome that is a non-200 response, a timeout or a
\* connection error gives invalid without fallback url; valid comes with no
\* fallback url; a fallback url is given only when the GET returned 200
\* with a content type that is not pdf
C14_VerifierNeverRaises ==
  Verified =>
    /\ fout.kind = "verdict"
    /\ fout.valid \in BOOLEAN
    /\ fout.message # ""
    /\ ~Is200(LastOutcome) => (~fout.valid /\ fout.fallback_url = None)
    /\ fout.valid => fout.fallback_url = None
    /\ fout.fallback_url # None =>
         /\ Len(fout.requests) = 2
         /\ Is200(fin.get)
         /\ ~HasPdf(fin.get.ctype)

\* C14 witness: a Content-Length that is not a number made int() raise, and
\* the verifier returned an invalid verdict
C14_Witness ==
  /\ Verified
  /\ Is200(fin.head) /\ fin.head.clen = "abc" /\ ~HasPdf(fin.head.ctype)
  /\ fout.kind = "verdict"
  /\ ~fout.valid
  /\ fout.fallback_url = None

-----------------------------------------------------------------------------
(* The insertion scripts and the failure of a batch insert *)

\* Config.BATCH_SIZE
BATCH_SIZE == 25

\* batch_size of insert_branch_documents
SchemaBatchSize == 20

\* the numbers of records of the loaded file, and the positions at which a
\* record may be one the table rejects
DocCounts == {1, 2, 3, 21, 26}

BadPositions == {1, 2, 21, 26}

InsertScripts == {"insert_simple", "insert_correct_schema"}

InsertInputs ==
  {[kind |-> "insert", script |-> sc, n |-> n, bad |-> bad] :
     sc \in InsertScripts, n \in DocCounts,
     bad \in SUBSET (BadPositions \cap 1..26)}

\* docs_for_insertion
DocsForInsertion(in) ==
  [i \in 1..in.n |-> [pdf_url |-> i, well_formed |-> i \notin in.bad]]

\* supabase.table("documents").insert(batch).execute() raises: one request,
\* refused as a whole when a record of it is refused
InsertRaises(batch) == \E i \in 1..Len(batch) : ~batch[i].well_formed

\* DatabaseManager.insert_documents(documents): the rows afterwards and the
\* value returned; an exception ends the loop over the batches and is not
\* raised to the caller
RECURSIVE insert_documents(_, _)
insert_documents(st, documents) ==
  IF documents = <<>> THEN [rows |-> st, success |-> TRUE, raised |-> FALSE]
  ELSE LET batch == Take(documents, BATCH_SIZE)
       IN IF InsertRaises(batch)
          THEN [rows |-> st, success |-> FALSE, raised |-> FALSE]
          ELSE insert_documents(st \o batch,
                                SubSeq(documents, Len(batch) + 1, Len(documents)))

\* the loop "for i, doc in enumerate(docs_for_insertion)" of insert_simple
RECURSIVE InsertOneByOne(_, _)
InsertOneByOne(st, docs) ==
  IF docs = <<>> THEN st
  ELSE InsertOneByOne(insert_documents(st, <<Head(docs)>>).rows, Tail(docs))

\* the loop "for doc in batch" of insert_branch_documents
RECURSIVE InsertIndividually(_, _)
InsertIndividually(st, batch) ==
  IF batch = <<>> THEN st
  ELSE InsertIndividually(
         IF InsertRaises(<<Head(batch)>>) THEN st ELSE Append(st, Head(batch)),
         Tail(batch))

InitInsert ==
  /\ variant = "branch"
  /\ target = 1
  /\ max_branches = 0
  /\ content = (BrK :> <<>>) @@ (BrM :> <<>>)
  /\ home = <<>>
  /\ down = {}
  /\ invalid = {}
  /\ broken = {}
  /\ insert_fails = FALSE
  /\ no_embedding = {}
  /\ storage = <<>>
  /\ InitRun
  /\ fin \in {in \in InsertInputs : in.bad \subseteq 1..in.n}
  /\ fout = NoInput

\* insert_simple.insert_without_embeddings: the batch insert and, in its
\* except branch, the individual inserts
InsertWithoutEmbeddings ==
  /\ fin.kind = "insert"
  /\ fin.script = "insert_simple"
  /\ pc = "idle"
  /\ LET docs == DocsForInsertion(fin)
         result == insert_documents(storage, docs)
     IN storage' = IF result.raised THEN InsertOneByOne(result.rows, docs)
                   ELSE result.rows
  /\ pc' = "done"
  /\ UNCHANGED << worldVars, funVars, navigation_route, run, document_pages,
                  idx, pdf_links, li, existing_urls, branch_count,
                  branch_counts, accepted, valid_count, invalid_count,
                  insert_calls, backups, start_urls, prev_accepted >>

\* insert_correct_schema.insert_branch_documents: one iteration of
\* "for batch_num in range(total_batches)"
InsertBranchDocumentsBatch ==
  /\ fin.kind = "insert"
  /\ fin.script = "insert_correct_schema"
  /\ pc \in {"idle", "persist"}
  /\ LET docs == DocsForInsertion(fin)
         total_batches == (Len(docs) + SchemaBatchSize - 1) \div SchemaBatchSize
         start_idx == idx * SchemaBatchSize
         end_idx == Min(start_idx + SchemaBatchSize, Len(docs))
         batch == SubSeq(docs, start_idx + 1, end_idx)
     IN /\ idx < total_batches
        /\ storage' = IF InsertRaises(batch) THEN InsertIndividually(storage, batch)
                      ELSE storage \o batch
        /\ idx' = idx + 1
        /\ pc' = IF idx' = total_batches THEN "done" ELSE "persist"
  /\ UNCHANGED << worldVars, funVars, navigation_route, run, document_pages,
                  pdf_links, li, existing_urls, branch_count, branch_counts,
                  accepted, valid_count, invalid_count, insert_calls, backups,
                  start_urls, prev_accepted >>

NextInsert == InsertWithoutEmbeddings \/ InsertBranchDocumentsBatch

SpecInsert == InitInsert /\ [][NextInsert]_vars

\* C15: when a batch insert fails the records are inserted one by one, so
\* that, once the script has finished, every well-formed record of the file
\* is stored, in the script that goes through DatabaseManager.insert_documents
\* as in the one that inserts directly
C15_WellFormedRecordsStored ==
  (fin.kind = "insert" /\ pc = "done") =>
    \A i \in 1..fin.n :
      i \notin fin.bad => DocsForInsertion(fin)[i] \in Range(storage)

-----------------------------------------------------------------------------
(* The backup and the storage insert *)

\* C16: a finished run that accepted a record and writes a backup has written
\* a snapshot holding every accepted record, whether the insert succeeded,
\* failed, or dropped records whose embedding could not be computed
C16_BackupHoldsAccepted ==
  (pc = "done" /\ accepted # <<>>
     /\ variant \in {"additional", "comprehensive", "branch", "real"}) =>
    /\ backups # <<>>
    /\ Range(accepted) \subseteq Range(backups[Len(backups)])

\* a finished run whose insert failed or dropped a record: an accepted record
\* is not in storage and is in the snapshot
C16_Witness ==
  /\ pc = "done"
  /\ insert_fails \/ no_embedding # {}
  /\ backups # <<>>
  /\ \E i \in 1..Len(accepted) :
       /\ accepted[i].pdf_url \notin StoredUrls(storage)
       /\ accepted[i] \in Range(backups[Len(backups)])

-----------------------------------------------------------------------------
(* The record of one anchor *)

\* the anchor of the example: href /Documents/M_2641_17-Apr-2023_450.pdf, a
\* plain description as text, no identifier and no date in text and context
ExampleAnchor ==
  /\ fin.kind = "record"
  /\ fin.form = "rooted"
  /\ fin.fname = <<"M", "_", "2641", "_", "17-Apr-2023", "_", "450", ".pdf">>
  /\ fin.text = {"pay", "employee"}
  /\ ~fin.long
  /\ fin.matches = {}
  /\ fin.textDate = ""

\* C17: the record of the example anchor has the stem of the file name as
\* gr_no, the date of the file name as date, the branch
\* M-(Pay of Government Employee), the anchor text as subject and the base
\* host followed by the href as pdf_url
C17_ExampleRecord ==
  (ExampleAnchor /\ fout.kind = "record") =>
    /\ fout.gr_no = <<"M", "_", "2641", "_", "17-Apr-2023", "_", "450">>
    /\ fout.date = "17-Apr-2023"
    /\ fout.branch = BrM
    /\ fout.subject_en = [words |-> fin.text, cut |-> FALSE]
    /\ fout.pdf_url = <<base_url>> \o Href(fin.form, fin.fname)

-----------------------------------------------------------------------------
(* The GR number taken from the url *)

\* the extraction of the branch-targeted or the additional scraper has built
\* a gr_no from a link whose text and context match none of its patterns
NoPatternCase ==
  /\ fout.kind \in {"gr_no", "record"}
  /\ fin.scraper \in {"branch", "additional"}
  /\ \A i \in fin.matches :
       i > (IF fin.scraper = "branch" THEN NumGrPatterns ELSE NumGrPatternsAdditional)

\* the last segment of the url contains '_' or '-'
SegmentHasSeparator == \E i \in 1..Len(fin.fname) : fin.fname[i] \in {"_", "-"}

\* the last segment of the url without its '.pdf' and '.PDF'
Stem == SelectSeq(fin.fname, LAMBDA t : t # ".pdf" /\ t # ".PDF")

\* C18: when no GR pattern matches text and context and the last segment of
\* the url contains '_' or '-', the gr_no is that segment with '.pdf' and
\* '.PDF' removed, and no identifier is generated from the hash
C18_FilenameFallback ==
  (NoPatternCase /\ SegmentHasSeparator) =>
    /\ fout.gr_no = Stem
    /\ fout.gr_no # SyntheticGrNo(fin.urlTags, fin.hv)

\* the record of .../Cir_2_2016-11-9_814.PDF with empty text has been built
C18_Witness ==
  /\ NoPatternCase
  /\ fout.kind = "record"
  /\ fin.text = {}
  /\ fin.fname = <<"Cir", "_", "2", "_", "2016-11-9", "_", "814", ".PDF">>
  /\ fout.gr_no = <<"Cir", "_", "2", "_", "2016-11-9", "_", "814">>

-----------------------------------------------------------------------------
(* The generated GR number *)

\* the extraction of a scraper has built a gr_no from a link whose text and
\* context match none of its patterns and whose file name has no '_' and no '-'
GeneratedCase ==
  /\ fout.kind \in {"gr_no", "record"}
  /\ \A i \in fin.matches :
       i > (IF fin.scraper = "additional" THEN NumGrPatternsAdditional
            ELSE NumGrPatterns)
  /\ ~SegmentHasSeparator

\* the tag of the first of 'circular', 'gr', 'rule', 'notification' in the url
TagOf(urlTags) ==
  CASE "circular" \in urlTags -> "Cir"
    [] "gr" \in urlTags -> "GR"
    [] "rule" \in urlTags -> "Rule"
    [] "notification" \in urlTags -> "Not"
    [] OTHER -> "DOC"

\* C19: in every scraper variant, when no GR pattern matches and the file
\* name of the url contains neither '_' nor '-', gr_no is '<tag>_<n>' with n
\* the hash of the url modulo 100000, in 0..99999, and tag Cir, GR, Rule, Not
\* or DOC by the first of 'circular', 'gr', 'rule', 'notification' in the url
C19_GeneratedIdentifier ==
  GeneratedCase =>
    LET n == fin.hv % 100000
    IN /\ n \in 0..99999
       /\ fout.gr_no = <<TagOf(fin.urlTags), "_", ToString(n)>>

\* C20: two processes that both generate the gr_no of the same url from its
\* hash produce the same gr_no
C20_GeneratedIdentifierStable ==
  (fout.kind = "gr_no_again"
     /\ fin.scraper \in {"branch", "additional"}
     /\ (\A i \in fin.matches :
           i > (IF fin.scraper = "additional" THEN NumGrPatternsAdditional
                ELSE NumGrPatterns))
     /\ ~SegmentHasSeparator) =>
    fout.again = fout.gr_no

-----------------------------------------------------------------------------
(* The precedence of the comprehensive classifier *)

\* the branch the keywords of the text and the context of the link give on
\* their own, "" when none of them is a branch keyword
LinkBranch == FirstBranch(ComprehensiveKeywords, KeywordsIn(fin.words))

ClassifiedComprehensive ==
  /\ fin.kind = "classify"
  /\ fin.scraper = "comprehensive"
  /\ fout.kind = "branch"

\* C21: a branch keyword in the text or the context of the link decides the
\* branch regardless of the name of the page of the link; the page name
\* counts only when the text and the context hold no keyword
C21_KeywordOutranksPage ==
  (ClassifiedComprehensive /\ LinkBranch # "") => fout.branch = LinkBranch

-----------------------------------------------------------------------------
(* The tie-break of the classifiers *)

\* the fixed order of the keyword mapping
MappingOrder == <<BrM, BrPayCell, BrK, BrA, BrCH, BrN, BrP, BrT, BrF, BrAU>>

\* the keywords occurring in the lowercased input of the classifier
InputKeywords ==
  IF fin.scraper = "comprehensive"
  THEN KeywordsIn(fin.words) \cup PageKeywords(fin.page)
  ELSE KeywordsIn(fin.words)

\* the keyword list of a branch in the mapping of the classifier
KeywordsOfBranch(b) ==
  LET mapping == IF fin.scraper = "comprehensive" THEN ComprehensiveKeywords
                 ELSE RealKeywords
  IN UNION {mapping[i][2] : i \in {j \in 1..Len(mapping) : mapping[j][1] = b}}

Occurs(b) == KeywordsOfBranch(b) \cap InputKeywords # {}

\* C22: the comprehensive and the real classifier return the first branch, in
\* the order M, PayCell, K, A, CH, N, P, T, F, AU, that has a keyword in the
\* lowercased input; with a budget and a pension keyword and no keyword of an
\* earlier branch this is K-(Budget)
C22_FirstBranchInOrder ==
  (fin.kind = "classify" /\ fin.scraper \in {"comprehensive", "real"}
     /\ fout.kind = "branch") =>
    \A i \in 1..Len(MappingOrder) :
      (Occurs(MappingOrder[i]) /\ \A j \in 1..(i - 1) : ~Occurs(MappingOrder[j]))
        => fout.branch = MappingOrder[i]

\* a text with a budget and a pension keyword has been classified K-(Budget)
C22_Witness ==
  /\ fin.kind = "classify"
  /\ fin.scraper \in {"comprehensive", "real"}
  /\ fin.words = {"budget", "pension"}
  /\ fout.kind = "branch"
  /\ fout.branch = BrK

-----------------------------------------------------------------------------
(* The page-source default *)

\* the branch the claim gives to a page name
PageBranch(name) ==
  CASE name \in {"GR Page", "GR Page (Fallback)"} -> BrM
    [] name \in {"Circulars", "Circulars (Fallback)"} -> BrPayCell
    [] name = "Budget Documents" -> BrK
    [] name = "Treasury Instructions" -> BrT
    [] name = "Pension Documents" -> BrP
    [] name = "Audit Reports" -> BrAU
    [] OTHER -> BrM

\* C24: a link whose text and context hold no branch keyword gets its branch
\* from the name of its page: 'gr' or 'resolution' gives M, 'circular'
\* PayCell, 'budget' K, 'treasury' T, 'pension' P, 'audit' AU, any other name M
C24_PageSourceDefault ==
  (ClassifiedComprehensive /\ LinkBranch = "") => fout.branch = PageBranch(fin.page)

-----------------------------------------------------------------------------
(* The url of a link *)

\* the url has a scheme and a host
IsAbsolute(url) == url # <<>> /\ url[1] \in {base_url, "http://host"}

\* C23: the link record of an anchor whose href contains '.pdf' in any letter
\* case has an absolute url: an href starting with 'http' unchanged, an href
\* starting with '/' appended to the base host, any other href under the root
\* of the base host; also for '//host/x.pdf' and for relative file names that
\* begin with the letters 'http'
C23_UrlIsAbsolute ==
  fout.kind = "record" =>
    /\ IsAbsolute(fout.pdf_url)
    /\ fin.form \in {"absolute", "http_name"} =>
         fout.pdf_url = Href(fin.form, fin.fname)
    /\ fin.form \in {"rooted", "protocol_relative"} =>
         fout.pdf_url = <<base_url>> \o Href(fin.form, fin.fname)
    /\ fin.form = "relative" =>
         fout.pdf_url = <<base_url, "/">> \o Href(fin.form, fin.fname)

-----------------------------------------------------------------------------
(* A link whose extraction fails *)

\* the branch-targeted run is about to call extract_document_info on a link
\* on which it fails
ExtractionFails ==
  /\ variant = "branch"
  /\ pc = "filter"
  /\ li < Len(pdf_links)
  /\ pdf_links[li + 1].url \in broken
  /\ pdf_links[li + 1].url \notin existing_urls
  /\ branch_count < target

\* C25: a link whose extraction fails is skipped: its url is not added to the
\* known urls, the branch counter and the valid and invalid counters keep
\* their values, no record is accepted, and the run goes on with the next
\* link; the url is not among the known urls of the next run
C25_FailedLinkSkipped ==
  /\ [][ExtractionFails =>
          /\ existing_urls' = existing_urls
          /\ branch_count' = branch_count
          /\ valid_count' = valid_count
          /\ invalid_count' = invalid_count
          /\ accepted' = accepted
          /\ li' = li + 1]_vars
  /\ []((variant = "branch" /\ run = 2) => broken \cap start_urls = {})

\* the extraction of a link has failed, the link after it has been accepted,
\* and the failed url is not known
C25_Witness ==
  /\ variant = "branch"
  /\ li >= 2
  /\ li <= Len(pdf_links)
  /\ pdf_links[li - 1].url \in broken
  /\ pdf_links[li - 1].url \notin existing_urls
  /\ pdf_links[li].url \in UrlsOf(accepted)

-----------------------------------------------------------------------------
(* The accept step of run_branch_scraping executed by two workers *)

Workers == {"w1", "w2"}

\* the links of one branch handed to the workers; locked: the accept step is
\* executed under a lock
RaceInputs ==
  [kind : {"race"}, locked : BOOLEAN, links : SeqsUpTo(Urls, MaxLinks)]

\* no worker holds a link
Idle == [kind |-> "workers", held |-> [w \in Workers |-> 0]]

InitRace ==
  /\ variant = "branch"
  /\ target \in 1..MaxTarget
  /\ max_branches = 0
  /\ content = (BrK :> <<>>) @@ (BrM :> <<>>)
  /\ home = <<>>
  /\ down = {}
  /\ invalid = {}
  /\ broken = {}
  /\ insert_fails = FALSE
  /\ no_embedding = {}
  /\ storage = <<>>
  /\ run = 1
  /\ pc = "filter"
  /\ document_pages = <<>>
  /\ idx = 0
  /\ \E in \in RaceInputs : fin = in /\ pdf_links = in.links
  /\ li = 0
  /\ existing_urls = {}
  /\ branch_count = 0
  /\ branch_counts = <<>>
  /\ accepted = <<>>
  /\ valid_count = 0
  /\ invalid_count = 0
  /\ insert_calls = <<>>
  /\ backups = <<>>
  /\ start_urls = {}
  /\ prev_accepted = <<>>
  /\ navigation_route = <<>>
  /\ fout = Idle

\* "if pdf_link['url'] not in existing_urls and branch_count < target_per_branch"
MayAccept(url) == url \notin existing_urls /\ UnderQuota(branch_count, target)

\* a worker takes the next link and evaluates the condition of the accept step
WorkerCheck(w) ==
  /\ fin.kind = "race"
  /\ ~fin.locked
  /\ fout.held[w] = 0
  /\ li < Len(pdf_links)
  /\ li' = li + 1
  /\ fout' = IF MayAccept(pdf_links[li + 1])
             THEN [fout EXCEPT !.held[w] = pdf_links[li + 1]] ELSE fout
  /\ UNCHANGED << worldVars, storage, fin, navigation_route, run, pc,
                  document_pages, idx, pdf_links, existing_urls, branch_count,
                  branch_counts, accepted, valid_count, invalid_count,
                  insert_calls, backups, start_urls, prev_accepted >>

\* the worker appends the record, adds the url and increments the count
WorkerCommit(w) ==
  /\ fin.kind = "race"
  /\ fout.held[w] # 0
  /\ accepted' = Append(accepted, Doc(fout.held[w], BrM, TRUE))
  /\ valid_count' = valid_count + 1
  /\ existing_urls' = existing_urls \cup {fout.held[w]}
  /\ branch_count' = branch_count + 1
  /\ fout' = [fout EXCEPT !.held[w] = 0]
  /\ UNCHANGED << worldVars, storage, fin, navigation_route, run, pc,
                  document_pages, idx, pdf_links, li, branch_counts,
                  invalid_count, insert_calls, backups, start_urls,
                  prev_accepted >>

\* the accept step as one step under the lock
WorkerAcceptLocked(w) ==
  /\ fin.kind = "race"
  /\ fin.locked
  /\ li < Len(pdf_links)
  /\ li' = li + 1
  /\ LET url == pdf_links[li + 1]
         ok == MayAccept(url)
     IN /\ accepted' = IF ok THEN Append(accepted, Doc(url, BrM, TRUE)) ELSE accepted
        /\ valid_count' = IF ok THEN valid_count + 1 ELSE valid_count
        /\ existing_urls' = IF ok THEN existing_urls \cup {url} ELSE existing_urls
        /\ branch_count' = IF ok THEN branch_count + 1 ELSE branch_count
  /\ UNCHANGED << worldVars, storage, funVars, navigation_route, run, pc,
                  document_pages, idx, pdf_links, branch_counts,
                  invalid_count, insert_calls, backups, start_urls,
                  prev_accepted >>

NextRace ==
  \E w \in Workers : WorkerCheck(w) \/ WorkerCommit(w) \/ WorkerAcceptLocked(w)

SpecRace == InitRace /\ [][NextRace]_vars

\* C26: when the accept step is one locked step no interleaving of the two
\* workers accepts more than target_per_branch records of the branch or the
\* same url twice; without the lock two workers exceed the quota, by one
\* record at most
C26_LockedAcceptKeepsQuota ==
  fin.kind = "race" =>
    /\ fin.locked => (Len(accepted) <= target /\ NoDuplicateUrls(accepted))
    /\ ~fin.locked => Len(accepted) <= target + 1

\* without the lock both workers passed the test before either of them
\* incremented the count: the branch has one record more than its quota
C26_Witness ==
  /\ fin.kind = "race"
  /\ ~fin.locked
  /\ Len(accepted) = target + 1

-----------------------------------------------------------------------------
(* The summary of a run *)

\* C27: at the end of a branch-targeted, comprehensive or additional run
\* valid_count + invalid_count is the number of records accepted in the run:
\* each accepted record is counted once under its verification outcome and a
\* link rejected by deduplication or by the quota is not counted
C27_SummaryConsistent ==
  (pc = "done" /\ variant \in VerifyingVariants) =>
    /\ valid_count + invalid_count = Len(accepted)
    /\ valid_count = Len(SelectSeq(accepted, LAMBDA d : d.pdf_valid))

-----------------------------------------------------------------------------
(* The number of documents reported as saved *)

\* success_count of save_documents_to_database and the value returned by
\* save_documents: the length of the list handed to db.insert_documents
saved_count ==
  IF insert_calls = <<>> THEN 0 ELSE Len(insert_calls[Len(insert_calls)])

\* the number of rows the run has added to the documents table
StoredInRun == Len(storage) - Cardinality(start_urls)

\* C28: the number of documents a run reports as saved is the number of
\* documents stored; when the insert fails the reported number is 0
C28_HonestSaveCount ==
  (pc = "done" /\ variant \in {"additional", "real"}) =>
    /\ saved_count = StoredInRun
    /\ insert_fails => saved_count = 0

-----------------------------------------------------------------------------
(* The verification pass over the stored documents *)

\* rows of the documents table: pdf_url 0 stands for a row without url
StoredRows ==
  [gr_no : {"GR-1", "Unknown"}, pdf_url : {0, 1, 2}, subject_en : {"subject"},
   pdf_valid : {TRUE}, pdf_status : {"ok"}, verification_date : {"never"}]

\* DatabaseManager.update_document(document): the rows after
\* update(update_data).eq("gr_no", document['gr_no'])
update_document(st, document) ==
  [i \in 1..Len(st) |->
     IF st[i].gr_no = document.gr_no
     THEN [st[i] EXCEPT !.pdf_valid = document.pdf_valid,
                        !.pdf_status = document.pdf_status,
                        !.verification_date = document.verification_date]
     ELSE st[i]]

InitClean ==
  /\ variant = "branch"
  /\ target = 1
  /\ max_branches = 0
  /\ content = (BrK :> <<>>) @@ (BrM :> <<>>)
  /\ home = <<>>
  /\ down = {}
  /\ invalid \in SUBSET {1, 2}
  /\ broken = {}
  /\ insert_fails = FALSE
  /\ no_embedding = {}
  /\ storage \in SeqsUpTo(StoredRows, MaxLinks)
  /\ run = 1
  /\ pc = "idle"
  /\ document_pages = <<>>
  /\ idx = 0
  /\ pdf_links = <<>>
  /\ li = 0
  /\ existing_urls = {}
  /\ branch_count = 0
  /\ branch_counts = <<>>
  /\ accepted = <<>>
  /\ valid_count = 0
  /\ invalid_count = 0
  /\ insert_calls = <<>>
  /\ backups = <<>>
  /\ start_urls = {}
  /\ prev_accepted = <<>>
  /\ navigation_route = <<>>
  /\ fin = [kind |-> "clean"]
  /\ fout = NoInput

\* clean_broken_pdfs: all_docs = db.search_documents({})
CleanStart ==
  /\ fin.kind = "clean"
  /\ pc = "idle"
  /\ document_pages' = storage
  /\ pc' = IF storage = <<>> THEN "done" ELSE "scrape"
  /\ UNCHANGED << worldVars, storage, funVars, navigation_route, run, idx,
                  pdf_links, li, existing_urls, branch_count, branch_counts,
                  accepted, valid_count, invalid_count, insert_calls, backups,
                  start_urls, prev_accepted >>

\* clean_broken_pdfs: one iteration of "for doc in all_docs"; valid_count
\* holds updated_count
CleanDoc ==
  /\ fin.kind = "clean"
  /\ pc = "scrape"
  /\ idx < Len(document_pages)
  /\ LET doc == document_pages[idx + 1]
         marks == doc.pdf_url # 0 /\ doc.pdf_url \in invalid
     IN /\ storage' = IF marks
                      THEN update_document(storage,
                             [gr_no |-> doc.gr_no, pdf_valid |-> FALSE,
                              pdf_status |-> "broken", verification_date |-> "now"])
                      ELSE storage
        /\ valid_count' = IF marks THEN valid_count + 1 ELSE valid_count
  /\ idx' = idx + 1
  /\ pc' = IF idx' = Len(document_pages) THEN "done" ELSE "scrape"
  /\ UNCHANGED << worldVars, funVars, navigation_route, run, document_pages,
                  pdf_links, li, existing_urls, branch_count, branch_counts,
                  accepted, invalid_count, insert_calls, backups, start_urls,
                  prev_accepted >>

NextClean == CleanStart \/ CleanDoc

SpecClean == InitClean /\ [][NextClean]_vars

\* C29: the verification pass changes pdf_valid, pdf_status and
\* verification_date only on the stored documents whose own pdf_url failed
\* verification; a document whose url is accessible, or which has no url, is
\* left as it was, also when it shares its gr_no with a broken one; no other
\* field is changed
C29_CleanFrame ==
  (fin.kind = "clean" /\ pc \in {"scrape", "done"}) =>
    \A i \in 1..Len(storage) :
      /\ storage[i].gr_no = document_pages[i].gr_no
      /\ storage[i].pdf_url = document_pages[i].pdf_url
      /\ storage[i].subject_en = document_pages[i].subject_en
      /\ (storage[i].pdf_url = 0 \/ storage[i].pdf_url \notin invalid)
           => storage[i] = document_pages[i]

-----------------------------------------------------------------------------
(* The order of the messages of a chat session *)

MaxMessages == 3

Callers == {"c1", "c2"}

\* the session each caller writes to; unique: whether the chat_messages table
\* refuses a second row with the same session_id and message_order (the
\* schema of the table is not part of the repository)
ChatInputs ==
  [kind : {"chat"}, unique : BOOLEAN, session : [Callers -> {"s1", "s2"}]]

\* select("message_order").eq("session_id", ...).order(desc).limit(1), then
\* next_order = 1, or the order of that row plus one
NextOrder(rows, session_id) ==
  LET orders == {rows[i].message_order :
                   i \in {j \in 1..Len(rows) : rows[j].session_id = session_id}}
  IN IF orders = {} THEN 1
     ELSE (CHOOSE m \in orders : \A n \in orders : n <= m) + 1

InitChat ==
  /\ variant = "branch"
  /\ target = 1
  /\ max_branches = 0
  /\ content = (BrK :> <<>>) @@ (BrM :> <<>>)
  /\ home = <<>>
  /\ down = {}
  /\ invalid = {}
  /\ broken = {}
  /\ insert_fails = FALSE
  /\ no_embedding = {}
  /\ storage = <<>>
  /\ InitRun
  /\ fin \in ChatInputs
  /\ fout = [kind |-> "chat", next_order |-> [c \in Callers |-> 0]]

\* add_chat_message: the query for the next message order
ChatRead(c) ==
  /\ fin.kind = "chat"
  /\ fout.next_order[c] = 0
  /\ li < MaxMessages
  /\ li' = li + 1
  /\ fout' = [fout EXCEPT !.next_order[c] = NextOrder(storage, fin.session[c])]
  /\ UNCHANGED << worldVars, storage, fin, navigation_route, run, pc,
                  document_pages, idx, pdf_links, existing_urls, branch_count,
                  branch_counts, accepted, valid_count, invalid_count,
                  insert_calls, backups, start_urls, prev_accepted >>

\* add_chat_message: the insert of the message; an exception of the insert
\* is caught and the message is not stored
ChatInsert(c) ==
  /\ fin.kind = "chat"
  /\ fout.next_order[c] # 0
  /\ LET row == [session_id |-> fin.session[c], role |-> c,
                 message_order |-> fout.next_order[c]]
         refused == /\ fin.unique
                    /\ \E i \in 1..Len(storage) :
                         /\ storage[i].session_id = row.session_id
                         /\ storage[i].message_order = row.message_order
     IN storage' = IF refused THEN storage ELSE Append(storage, row)
  /\ fout' = [fout EXCEPT !.next_order[c] = 0]
  /\ UNCHANGED << worldVars, fin, runVars >>

NextChat == \E c \in Callers : ChatRead(c) \/ ChatInsert(c)

SpecChat == InitChat /\ [][NextChat]_vars

\* C30: within one chat session the message_order values are pairwise
\* distinct and increase in insertion order, starting at 1 and each one more
\* than the one before, also when two add_chat_message calls for the session
\* interleave between the query and the insert
C30_MessageOrder ==
  fin.kind = "chat" =>
    \A sid \in {"s1", "s2"} :
      LET msgs == SelectSeq(storage, LAMBDA r : r.session_id = sid)
      IN \A i \in 1..Len(msgs) : msgs[i].message_order = i

====
